---------------------------- MODULE Spec2Model ----------------------------
(***************************************************************************)
(* A model of ThreadPool (threadpool.hpp): a fixed set of worker threads   *)
(* running work(), and client threads calling push(), wait() and join().   *)
(* Every step is one critical section or one lock-free statement of the    *)
(* source; std::mutex and std::condition_variable are modelled by an owner *)
(* field and by wait sets, with spurious wake-ups.                         *)
(***************************************************************************)
EXTENDS Naturals, Integers, Sequences, FiniteSets, TLC

\* ------------------------------------------------------------ bounds
\* Largest n_threads passed to the constructor (0 is a legal argument, and
\* std::thread::hardware_concurrency() may return it).
MaxThreads == 2
\* Number of push() calls over the life of the pool.
MaxTasks == 2
\* Number of client threads calling push(), wait() and join().
MaxClients == 2
\* The small indeterminate values m_idle_count is tried with: 0..MaxGarbage.
MaxGarbage == 1

\* ------------------------------------------------------------ size_t
\* size_t is 64 bits wide: four limbs of 16 bits, most significant first.
LimbBits == 16
LimbBase == 2 ^ LimbBits
SizeT == [1..4 -> 0..(LimbBase - 1)]

\* The size_t holding the small number n.
SizeOf(n) == <<0, 0, 0, n>>

\* SIZE_MAX, 2^64 - 1.
SizeMax == <<LimbBase - 1, LimbBase - 1, LimbBase - 1, LimbBase - 1>>

\* First limb index (from the least significant) that is not `full`, 0 if none.
CarryStop(v, full) ==
    IF v[4] # full THEN 4
    ELSE IF v[3] # full THEN 3
    ELSE IF v[2] # full THEN 2
    ELSE IF v[1] # full THEN 1
    ELSE 0

\* ++v modulo 2^64.
SizeInc(v) ==
    LET k == CarryStop(v, LimbBase - 1)
    IN  [i \in 1..4 |-> IF i > k THEN 0 ELSE IF i = k THEN v[i] + 1 ELSE v[i]]

\* --v modulo 2^64.
SizeDec(v) ==
    LET k == CarryStop(v, 0)
    IN  [i \in 1..4 |-> IF i > k THEN LimbBase - 1
                        ELSE IF i = k THEN v[i] - 1 ELSE v[i]]

\* The values an uninitialised size_t member is tried with.
Indeterminate == {SizeOf(g) : g \in 0..MaxGarbage} \cup {SizeMax}

\* ------------------------------------------------------------ state
VARIABLES
    m_tasks,          \* std::queue of task ids, front first
    m_mutex,          \* the thread owning m_mutex, or NoThread
    m_idle_count,     \* size_t
    m_stop,           \* bool
    m_threads,        \* m_threads.size()
    joinable,         \* joinable[w]: std::thread w has not been joined
    task_cv,          \* workers blocked in m_task_cv.wait
    idle_cv,          \* clients blocked in m_idle_cv.wait
    wpc,              \* wpc[w]: position of worker w in work()
    wtask,            \* wtask[w]: the local `task` of worker w
    cpc,              \* cpc[c]: position of client c
    ctask,            \* ctask[c]: the task client c is pushing
    cidx,             \* cidx[c]: index of join()'s loop over m_threads
    future,           \* future[t]: shared state of task t's std::future
    hist              \* history of the run, read by the properties only

vars == <<m_tasks, m_mutex, m_idle_count, m_stop, m_threads, joinable,
          task_cv, idle_cv, wpc, wtask, cpc, ctask, cidx, future, hist>>

Tasks == 1..MaxTasks
Clients == 1..MaxClients
Workers == 1..m_threads

NoTask == 0
NoThread == <<"none", 0>>
Worker(w) == <<"work", w>>
Client(c) == <<"call", c>>

\* The history: what was enqueued, dequeued and run, in order; how often each
\* task's shared state was written; what each wait() and join() call saw when
\* it was made.
HistInit ==
    [ created    |-> 0,                       \* push() calls made
      pushed     |-> <<>>,                    \* tasks in m_tasks.push order
      popped     |-> <<>>,                    \* tasks in m_tasks.pop order
      ran        |-> <<>>,                    \* tasks in task() order
      returned   |-> {},                      \* tasks whose push() returned
      joinCalled |-> FALSE,                   \* join() has been called
      lateCall   |-> {},                      \* tasks push()ed after that
      preJoin    |-> {},                      \* tasks enqueued before that
      saw        |-> [c \in Clients |-> {}] ] \* `returned` when c called wait() or join()

\* ThreadPool::ThreadPool: n_threads workers are started; the constructor
\* holds m_mutex until all are in m_threads, so none has passed line 60.
\* m_idle_count has no initialiser.
Init ==
    /\ m_threads \in 0..MaxThreads
    /\ m_idle_count \in Indeterminate
    /\ m_tasks = <<>>
    /\ m_mutex = NoThread
    /\ m_stop = FALSE
    /\ joinable = [w \in Workers |-> TRUE]
    /\ task_cv = {}
    /\ idle_cv = {}
    /\ wpc = [w \in Workers |-> "lock"]
    /\ wtask = [w \in Workers |-> NoTask]
    /\ cpc = [c \in Clients |-> "idle"]
    /\ ctask = [c \in Clients |-> NoTask]
    /\ cidx = [c \in Clients |-> 0]
    /\ future = [t \in Tasks |-> "unset"]
    /\ hist = HistInit

\* ------------------------------------------------------------ primitives
\* std::condition_variable::notify_one on wait set S: the sets of threads it
\* may unblock (none when nobody waits).
NotifyOne(S) == IF S = {} THEN {{}} ELSE {{x} : x \in S}

\* std::condition_variable::notify_all on wait set S.
NotifyAll(S) == {S}

\* A push at the front of the queue (a stack instead of a queue).
EnqueueFront(q, t) == <<t>> \o q

\* m_tasks.push(std::move(void_wrapper))
Enqueue(q, t) == Append(q, t)

\* A pop that leaves the front task in the queue.
DequeueKeep(q) == q

\* m_tasks.pop()
Dequeue(q) == Tail(q)

\* The predicate of m_task_cv.wait: !m_tasks.empty() || m_stop
TaskReady == m_tasks # <<>> \/ m_stop

\* The predicate of m_idle_cv.wait: m_tasks.empty() && m_idle_count == m_threads.size()
AllIdle == m_tasks = <<>> /\ m_idle_count = SizeOf(m_threads)

\* A worker that leaves as soon as m_stop is set, whatever the queue holds.
ShouldExitOnStop == m_stop

\* The exit test of work(): m_stop && m_tasks.empty()
ShouldExit == m_stop /\ m_tasks = <<>>

\* ------------------------------------------------------------ work()
\* The workers a notify on m_task_cv unblocks.
Unblock(woken) ==
    /\ task_cv' = task_cv \ woken
    /\ wpc' = [x \in Workers |-> IF x \in woken THEN "task_woken" ELSE wpc[x]]

\* line 60: std::unique_lock<std::mutex> lock(m_mutex)
\* line 66: a worker unblocked from m_task_cv.wait takes the lock again.
WorkLock(w) ==
    /\ w \in Workers
    /\ wpc[w] \in {"lock", "task_woken"}
    /\ m_mutex = NoThread
    /\ m_mutex' = Worker(w)
    /\ wpc' = [wpc EXCEPT ![w] = IF wpc[w] = "lock" THEN "count" ELSE "task_wait"]
    /\ UNCHANGED <<m_tasks, m_idle_count, m_stop, m_threads, joinable, task_cv,
                   idle_cv, wtask, cpc, ctask, cidx, future, hist>>

\* A worker that unlocks only on the way out of work(), and so keeps the mutex
\* through lines 77-78 when it has taken a task.
WorkLeaveLocked(w, n) ==
    /\ m_idle_count' = SizeDec(n)
    /\ IF ShouldExit
       THEN /\ wpc' = [wpc EXCEPT ![w] = "returned"]
            /\ m_mutex' = NoThread
            /\ UNCHANGED <<m_tasks, wtask, hist>>
       ELSE /\ m_tasks # <<>>
            /\ wtask' = [wtask EXCEPT ![w] = Head(m_tasks)]
            /\ m_tasks' = Dequeue(m_tasks)
            /\ wpc' = [wpc EXCEPT ![w] = "notify"]
            /\ m_mutex' = m_mutex
            /\ hist' = [hist EXCEPT !.popped = Append(@, Head(m_tasks))]
    /\ UNCHANGED task_cv

\* lines 67-76, with n in m_idle_count: --m_idle_count; then either
\* if (m_stop && m_tasks.empty()) { lock.unlock(); return; } or
\* task = std::move(m_tasks.front()); m_tasks.pop(); lock.unlock()
\* (front() of an empty queue is undefined: the step needs a task).
WorkLeave(w, n) ==
    /\ m_idle_count' = SizeDec(n)
    /\ m_mutex' = NoThread
    /\ IF ShouldExit
       THEN /\ wpc' = [wpc EXCEPT ![w] = "returned"]
            /\ UNCHANGED <<m_tasks, wtask, hist>>
       ELSE /\ m_tasks # <<>>
            /\ wtask' = [wtask EXCEPT ![w] = Head(m_tasks)]
            /\ m_tasks' = Dequeue(m_tasks)
            /\ wpc' = [wpc EXCEPT ![w] = "notify"]
            /\ hist' = [hist EXCEPT !.popped = Append(@, Head(m_tasks))]
    /\ UNCHANGED task_cv

\* lines 66-76, with n in m_idle_count: m_task_cv.wait(lock, pred) tests pred
\* with the lock held; on false the lock is released and the worker blocks, on
\* true the wait is over and the critical section goes on to line 76 or 71.
WorkTaskWait(w, n) ==
    IF TaskReady
    THEN WorkLeave(w, n)
    ELSE /\ m_idle_count' = n
         /\ m_mutex' = NoThread
         /\ task_cv' = task_cv \cup {w}
         /\ wpc' = [wpc EXCEPT ![w] = "task_blocked"]
         /\ UNCHANGED <<m_tasks, wtask, hist>>

\* lines 62-76, the critical section of a loop iteration:
\* if (++m_idle_count == m_threads.size()) m_idle_cv.notify_one(); then line 66.
WorkCount(w) ==
    /\ w \in Workers
    /\ wpc[w] = "count"
    /\ LET n == SizeInc(m_idle_count) IN
          /\ \E woken \in (IF n = SizeOf(m_threads)
                           THEN NotifyOne(idle_cv) ELSE {{}}) :
                /\ idle_cv' = idle_cv \ woken
                /\ cpc' = [c \in Clients |->
                              IF c \in woken THEN "wait_woken" ELSE cpc[c]]
          /\ WorkTaskWait(w, n)
    /\ UNCHANGED <<m_stop, m_threads, joinable, ctask, cidx, future>>

\* line 66, after a wake-up: pred is tested again with the lock held.
WorkRetest(w) ==
    /\ w \in Workers
    /\ wpc[w] = "task_wait"
    /\ WorkTaskWait(w, m_idle_count)
    /\ UNCHANGED <<m_stop, m_threads, joinable, idle_cv, cpc, ctask, cidx, future>>

\* line 77: m_task_cv.notify_one()
WorkNotify(w) ==
    /\ w \in Workers
    /\ wpc[w] = "notify"
    /\ \E woken \in NotifyOne(task_cv) :
          /\ task_cv' = task_cv \ woken
          /\ wpc' = [x \in Workers |-> IF x \in woken THEN "task_woken"
                                       ELSE IF x = w THEN "run" ELSE wpc[x]]
    /\ UNCHANGED <<m_tasks, m_mutex, m_idle_count, m_stop, m_threads, joinable,
                   idle_cv, wtask, cpc, ctask, cidx, future, hist>>

\* A worker whose thread ends when the callable throws.
WorkRunDies(w) ==
    /\ w \in Workers
    /\ wpc[w] = "run"
    /\ \E outcome \in {"value", "exception"} :
          /\ future' = [future EXCEPT ![wtask[w]] = outcome]
          /\ wpc' = [wpc EXCEPT ![w] = IF outcome = "exception"
                                       THEN "returned" ELSE "lock"]
    /\ hist' = [hist EXCEPT !.ran = Append(@, wtask[w])]
    /\ wtask' = [wtask EXCEPT ![w] = NoTask]
    /\ UNCHANGED <<m_tasks, m_mutex, m_idle_count, m_stop, m_threads, joinable,
                   task_cv, idle_cv, cpc, ctask, cidx>>

\* line 78: task(), run to its end: the packaged_task stores the callable's
\* value or the exception it threw; then the loop starts over at line 60.
WorkRun(w) ==
    /\ w \in Workers
    /\ wpc[w] = "run"
    /\ \E outcome \in {"value", "exception"} :
          future' = [future EXCEPT ![wtask[w]] = outcome]
    /\ hist' = [hist EXCEPT !.ran = Append(@, wtask[w])]
    /\ wtask' = [wtask EXCEPT ![w] = NoTask]
    /\ wpc' = [wpc EXCEPT ![w] = "lock"]
    /\ UNCHANGED <<m_tasks, m_mutex, m_idle_count, m_stop, m_threads, joinable,
                   task_cv, idle_cv, cpc, ctask, cidx>>

\* A spurious wake-up of a worker blocked in m_task_cv.wait.
WorkSpurious(w) ==
    /\ w \in task_cv
    /\ Unblock({w})
    /\ UNCHANGED <<m_tasks, m_mutex, m_idle_count, m_stop, m_threads, joinable,
                   idle_cv, wtask, cpc, ctask, cidx, future, hist>>

\* One step of work() on worker w.
WorkStep(w) ==
    \/ WorkLock(w)
    \/ WorkCount(w)
    \/ WorkRetest(w)
    \/ WorkNotify(w)
    \/ WorkRun(w)

\* ------------------------------------------------------------ push()
\* lines 22-31: a client calls push(): the packaged_task and its future are
\* made (thread-local work), and the call obtains m_mutex.
PushCall(c) ==
    /\ cpc[c] = "idle"
    /\ hist.created < MaxTasks
    /\ LET t == hist.created + 1 IN
          /\ ctask' = [ctask EXCEPT ![c] = t]
          /\ hist' = [hist EXCEPT !.created = t,
                                  !.lateCall = IF hist.joinCalled
                                               THEN @ \cup {t} ELSE @]
    /\ m_mutex = NoThread /\ m_mutex' = Client(c)
    /\ cpc' = [cpc EXCEPT ![c] = "push_queue"]
    /\ UNCHANGED <<m_tasks, m_idle_count, m_stop, m_threads, joinable,
                   task_cv, idle_cv, wpc, wtask, cidx, future>>

\* A push() that hands its task over only once a worker is blocked in
\* m_task_cv.wait to take it.
PushQueueHandOff(c) ==
    /\ cpc[c] = "push_queue"
    /\ task_cv # {}
    /\ m_tasks' = Enqueue(m_tasks, ctask[c])
    /\ m_mutex' = NoThread
    /\ cpc' = [cpc EXCEPT ![c] = "push_notify"]
    /\ hist' = [hist EXCEPT !.pushed = Append(@, ctask[c]),
                            !.preJoin = IF hist.joinCalled
                                        THEN @ ELSE @ \cup {ctask[c]}]
    /\ UNCHANGED <<m_idle_count, m_stop, m_threads, joinable, task_cv, idle_cv,
                   wpc, wtask, ctask, cidx, future>>

\* lines 32-33: m_tasks.push(std::move(void_wrapper)); lock.unlock()
PushQueue(c) ==
    /\ cpc[c] = "push_queue"
    /\ m_tasks' = Enqueue(m_tasks, ctask[c])
    /\ m_mutex' = NoThread
    /\ cpc' = [cpc EXCEPT ![c] = "push_notify"]
    /\ hist' = [hist EXCEPT !.pushed = Append(@, ctask[c]),
                            !.preJoin = IF hist.joinCalled
                                        THEN @ ELSE @ \cup {ctask[c]}]
    /\ UNCHANGED <<m_idle_count, m_stop, m_threads, joinable, task_cv, idle_cv,
                   wpc, wtask, ctask, cidx, future>>

\* A push() without its notify_one.
PushWakesNone == {{}}

\* The workers line 34 unblocks: m_task_cv.notify_one()
PushWakes == NotifyOne(task_cv)

\* lines 34-35: m_task_cv.notify_one(); return future
PushNotify(c) ==
    /\ cpc[c] = "push_notify"
    /\ \E woken \in PushWakes : Unblock(woken)
    /\ cpc' = [cpc EXCEPT ![c] = "idle"]
    /\ hist' = [hist EXCEPT !.returned = @ \cup {ctask[c]}]
    /\ ctask' = [ctask EXCEPT ![c] = NoTask]
    /\ UNCHANGED <<m_tasks, m_mutex, m_idle_count, m_stop, m_threads, joinable,
                   idle_cv, wtask, cidx, future>>

\* ------------------------------------------------------------ wait()
\* The clients inside wait().
InWait == {c \in Clients : cpc[c] \in {"wait_test", "wait_blocked", "wait_woken"}}

\* lines 51-52: a client calls wait(), and the call obtains m_mutex.
WaitCall(c) ==
    /\ cpc[c] = "idle"
    /\ m_mutex = NoThread /\ m_mutex' = Client(c)
    /\ cpc' = [cpc EXCEPT ![c] = "wait_test"]
    /\ hist' = [hist EXCEPT !.saw[c] = hist.returned]
    /\ UNCHANGED <<m_tasks, m_idle_count, m_stop, m_threads, joinable,
                   task_cv, idle_cv, wpc, wtask, ctask, cidx, future>>

\* line 53: a client unblocked from m_idle_cv.wait takes the lock again.
WaitLock(c) ==
    /\ cpc[c] = "wait_woken"
    /\ m_mutex = NoThread
    /\ m_mutex' = Client(c)
    /\ cpc' = [cpc EXCEPT ![c] = "wait_test"]
    /\ UNCHANGED <<m_tasks, m_idle_count, m_stop, m_threads, joinable, task_cv,
                   idle_cv, wpc, wtask, ctask, cidx, future, hist>>

\* A wait() that stops the pool as join() does, once the pool is drained.
WaitTestStops(c) ==
    /\ cpc[c] = "wait_test"
    /\ m_mutex' = NoThread
    /\ IF AllIdle
       THEN /\ cpc' = [cpc EXCEPT ![c] = "wait_returned"]
            /\ m_stop' = TRUE
            /\ UNCHANGED idle_cv
       ELSE /\ cpc' = [cpc EXCEPT ![c] = "wait_blocked"]
            /\ idle_cv' = idle_cv \cup {c}
            /\ UNCHANGED m_stop
    /\ UNCHANGED <<m_tasks, m_idle_count, m_threads, joinable, task_cv,
                   wpc, wtask, ctask, cidx, future, hist>>

\* lines 53-55: m_idle_cv.wait(lock, pred), the test of pred with the lock held:
\* on true wait() prints and returns, releasing the lock; on false the lock is
\* released and the client blocks.
WaitTest(c) ==
    /\ cpc[c] = "wait_test"
    /\ m_mutex' = NoThread
    /\ IF AllIdle
       THEN /\ cpc' = [cpc EXCEPT ![c] = "wait_returned"]
            /\ UNCHANGED idle_cv
       ELSE /\ cpc' = [cpc EXCEPT ![c] = "wait_blocked"]
            /\ idle_cv' = idle_cv \cup {c}
    /\ UNCHANGED <<m_tasks, m_idle_count, m_stop, m_threads, joinable, task_cv,
                   wpc, wtask, ctask, cidx, future, hist>>

\* A spurious wake-up of a client blocked in m_idle_cv.wait.
WaitSpurious(c) ==
    /\ c \in idle_cv
    /\ idle_cv' = idle_cv \ {c}
    /\ cpc' = [cpc EXCEPT ![c] = "wait_woken"]
    /\ UNCHANGED <<m_tasks, m_mutex, m_idle_count, m_stop, m_threads, joinable,
                   task_cv, wpc, wtask, ctask, cidx, future, hist>>

\* ------------------------------------------------------------ join()
\* lines 38-39: a client calls join(), and the call obtains m_mutex.
JoinCall(c) ==
    /\ cpc[c] = "idle"
    /\ m_mutex = NoThread /\ m_mutex' = Client(c)
    /\ cpc' = [cpc EXCEPT ![c] = "join_stop"]
    /\ hist' = [hist EXCEPT !.joinCalled = TRUE,
                            !.saw[c] = hist.returned]
    /\ UNCHANGED <<m_tasks, m_idle_count, m_stop, m_threads, joinable,
                   task_cv, idle_cv, wpc, wtask, ctask, cidx, future>>

\* lines 40-41: m_stop = true; lock.unlock()
JoinStop(c) ==
    /\ cpc[c] = "join_stop"
    /\ m_stop' = TRUE
    /\ m_mutex' = NoThread
    /\ cpc' = [cpc EXCEPT ![c] = "join_notify"]
    /\ UNCHANGED <<m_tasks, m_idle_count, m_threads, joinable, task_cv, idle_cv,
                   wpc, wtask, ctask, cidx, future, hist>>

\* line 42: m_task_cv.notify_all(); then the loop of line 43 starts.
JoinNotify(c) ==
    /\ cpc[c] = "join_notify"
    /\ \E woken \in NotifyAll(task_cv) : Unblock(woken)
    /\ cpc' = [cpc EXCEPT ![c] = "join_next"]
    /\ cidx' = [cidx EXCEPT ![c] = 1]
    /\ UNCHANGED <<m_tasks, m_mutex, m_idle_count, m_stop, m_threads, joinable,
                   idle_cv, wtask, ctask, future, hist>>

\* The clients inside t.join() of thread w.
Joining(w) == {d \in Clients : cpc[d] = "join_thread" /\ cidx[d] = w}

\* lines 43-44: the next thread of m_threads, and the entry of t.join().
\* std::thread::join throws std::system_error when the thread is not joinable;
\* a join() of a thread another client is joining is a data race: the call
\* either fails with that error or blocks like the first one.
JoinNext(c) ==
    /\ cpc[c] = "join_next"
    /\ IF cidx[c] > m_threads
       THEN cpc' = [cpc EXCEPT ![c] = "join_returned"]
       ELSE IF ~joinable[cidx[c]]
       THEN cpc' = [cpc EXCEPT ![c] = "join_threw"]
       ELSE IF Joining(cidx[c]) # {}
       THEN \E to \in {"join_threw", "join_thread"} :
               cpc' = [cpc EXCEPT ![c] = to]
       ELSE cpc' = [cpc EXCEPT ![c] = "join_thread"]
    /\ UNCHANGED <<m_tasks, m_mutex, m_idle_count, m_stop, m_threads, joinable,
                   task_cv, idle_cv, wpc, wtask, ctask, cidx, future, hist>>

\* line 44: t.join() returns once work() has returned on that thread; the
\* std::thread is no longer joinable.
JoinThread(c) ==
    /\ cpc[c] = "join_thread"
    /\ wpc[cidx[c]] = "returned"
    /\ joinable' = [joinable EXCEPT ![cidx[c]] = FALSE]
    /\ cidx' = [cidx EXCEPT ![c] = @ + 1]
    /\ cpc' = [cpc EXCEPT ![c] = "join_next"]
    /\ UNCHANGED <<m_tasks, m_mutex, m_idle_count, m_stop, m_threads, task_cv,
                   idle_cv, wpc, wtask, ctask, future, hist>>

\* The caller goes on after wait() or join() returned, or after it caught the
\* std::system_error of join().
Resume(c) ==
    /\ cpc[c] \in {"wait_returned", "join_returned", "join_threw"}
    /\ cpc' = [cpc EXCEPT ![c] = "idle"]
    /\ hist' = [hist EXCEPT !.saw[c] = {}]
    /\ cidx' = [cidx EXCEPT ![c] = 0]
    /\ UNCHANGED <<m_tasks, m_mutex, m_idle_count, m_stop, m_threads, joinable,
                   task_cv, idle_cv, wpc, wtask, ctask, future>>

\* A client makes a call.
Call(c) ==
    \/ PushCall(c)
    \/ WaitCall(c)
    \/ JoinCall(c)

\* One step of a client inside push(), wait() or join().
ClientStep(c) ==
    \/ PushQueue(c)
    \/ PushNotify(c)
    \/ WaitLock(c)
    \/ WaitTest(c)
    \/ JoinStop(c)
    \/ JoinNotify(c)
    \/ JoinNext(c)
    \/ JoinThread(c)
    \/ Resume(c)

\* ------------------------------------------------------------ specification
Next ==
    \/ \E w \in 1..MaxThreads : WorkStep(w)
    \/ \E w \in 1..MaxThreads : WorkSpurious(w)
    \/ \E c \in Clients : Call(c)
    \/ \E c \in Clients : ClientStep(c)
    \/ \E c \in Clients : WaitSpurious(c)

Spec == Init /\ [][Next]_vars

\* The pool used by clients that never overlap two wait() calls.
SoloWaitCall(c) == InWait = {} /\ WaitCall(c)

SoloNext ==
    \/ \E w \in 1..MaxThreads : WorkStep(w)
    \/ \E w \in 1..MaxThreads : WorkSpurious(w)
    \/ \E c \in Clients : PushCall(c)
    \/ \E c \in Clients : SoloWaitCall(c)
    \/ \E c \in Clients : JoinCall(c)
    \/ \E c \in Clients : ClientStep(c)
    \/ \E c \in Clients : WaitSpurious(c)

SoloSpec == Init /\ [][SoloNext]_vars

\* A ThreadPool with static storage duration: its members are zero-initialised
\* before the constructor runs, so m_idle_count starts at 0.
InitStatic == Init /\ m_idle_count = SizeOf(0)

SpecStatic == InitStatic /\ [][Next]_vars

\* Fair scheduling: a thread inside work(), push(), wait() or join() whose next
\* step is possible again and again takes it (a std::mutex that is free again
\* and again is obtained); task() returns; no client has to make a call, and no
\* wake-up has to be spurious.
Fairness ==
    /\ \A w \in 1..MaxThreads : SF_vars(WorkStep(w))
    /\ \A c \in Clients : SF_vars(ClientStep(c))

FairSpec == InitStatic /\ [][Next]_vars /\ Fairness

\* One step of work() on worker w outside the task body (lines 60-77).
WorkDispatch(w) ==
    \/ WorkLock(w)
    \/ WorkCount(w)
    \/ WorkRetest(w)
    \/ WorkNotify(w)

\* Fair scheduling as in Fairness, except that task() at line 78 need not
\* return: a task body may run forever.
HangFairness ==
    /\ \A w \in 1..MaxThreads : SF_vars(WorkDispatch(w))
    /\ \A c \in Clients : SF_vars(ClientStep(c))

HangSpec == InitStatic /\ [][Next]_vars /\ HangFairness

\* ------------------------------------------------------------ properties
\* Task t's outcome is set.
Done(t) == future[t] # "unset"

\* The number of times t occurs in the sequence q.
Count(q, t) == Cardinality({i \in 1..Len(q) : q[i] = t})

\* The elements of the sequence q.
Range(q) == {q[i] : i \in 1..Len(q)}

\* p is a prefix of q.
IsPrefix(p, q) == Len(p) <= Len(q) /\ \A i \in 1..Len(p) : p[i] = q[i]

\* The workers inside m_task_cv.wait, blocked or on their way out of it.
InTaskWait == {w \in Workers : wpc[w] \in {"task_blocked", "task_woken"}}

\* Nothing moves until a client makes a call or a wake-up is spurious: the
\* mutex is free, every worker is blocked on m_task_cv or has returned, and
\* every client is outside the pool's methods or blocked on m_idle_cv.
Settled ==
    /\ m_mutex = NoThread
    /\ \A w \in Workers : wpc[w] \in {"task_blocked", "returned"}
    /\ \A c \in Clients : cpc[c] \in {"idle", "wait_blocked"}

\* C1: when wait() has returned, every task whose push() had returned before
\* that wait() was called has its outcome set.
C1_WaitDrained ==
    \A c \in Clients :
        cpc[c] = "wait_returned" => \A t \in hist.saw[c] : Done(t)

\* C2: every task has been popped at most once and run (its shared state
\* written) at most once, and no two workers hold the same task.
C2_ExactlyOnce ==
    /\ \A t \in Tasks : Count(hist.popped, t) <= 1 /\ Count(hist.ran, t) <= 1
    /\ \A v, w \in Workers : (v # w /\ wtask[v] # NoTask) => wtask[v] # wtask[w]

\* C2's case: two workers hold the two tasks at the same time.
C2_Witness ==
    /\ m_threads = 2
    /\ wtask[1] # NoTask /\ wtask[2] # NoTask

\* C3: under fair scheduling, in a pool with at least one worker, every task
\* enqueued before join() was called gets its outcome set.
C3_Live ==
    \A t \in Tasks : (m_threads >= 1 /\ t \in hist.preJoin) ~> Done(t)

\* C3's case: a pool with a worker, a task enqueued before join() was called,
\* join() called, and the task's outcome set.
C3_Witness ==
    /\ m_threads >= 1
    /\ hist.joinCalled
    /\ \E t \in hist.preJoin : Done(t)

\* C4: when join() has returned, every worker has returned from work() and
\* every task whose push() had returned before join() was first called has
\* its outcome set.
C4_JoinDrains ==
    \A c \in Clients :
        cpc[c] = "join_returned" =>
            /\ \A w \in Workers : wpc[w] = "returned"
            /\ \A t \in hist.saw[c] \cap hist.preJoin : Done(t)

\* C5 (under SoloSpec, where no two wait() calls overlap): with join() never
\* called, the client in wait() is not left blocked once nothing moves any more.
C5_WaiterReturns ==
    (Settled /\ ~hist.joinCalled) => idle_cv = {}

\* C6: no client stays blocked in wait() while the predicate of wait() holds
\* and nothing moves any more.
C6_AllWaitersReturn ==
    (Settled /\ AllIdle) => idle_cv = {}

\* C7: no call of join() ends with an error.
C7_JoinTwiceBenign ==
    \A c \in Clients : cpc[c] # "join_threw"

\* C8: a task whose push() was called after join() was called is not enqueued.
C8_LatePushRejected ==
    \A t \in hist.lateCall : t \notin Range(hist.pushed)

\* C9: the tasks are popped in the order they were pushed, and a pool of one
\* worker runs them in that order.
C9_Fifo ==
    /\ IsPrefix(hist.popped, hist.pushed)
    /\ m_threads = 1 => IsPrefix(hist.ran, hist.pushed)

\* C9's case: a pool of one worker has popped and run two tasks.
C9_Witness ==
    /\ m_threads = 1
    /\ Len(hist.ran) = 2
    /\ hist.popped = hist.pushed

\* C10: while the mutex is free, m_idle_count is the number of workers inside
\* m_task_cv.wait (so it lies in 0..m_threads.size(), and equals
\* m_threads.size() only when no worker holds or runs a task).
C10_IdleCount ==
    m_mutex = NoThread => m_idle_count = SizeOf(Cardinality(InTaskWait))

\* The pool as the constructor leaves it: no call has been made and no worker
\* has passed line 60.
Constructed ==
    /\ \A w \in Workers : wpc[w] = "lock"
    /\ m_mutex = NoThread
    /\ hist.created = 0 /\ hist.popped = <<>> /\ ~hist.joinCalled
    /\ \A c \in Clients : cpc[c] = "idle"

\* C11: after construction with n_threads = N, before any worker increments
\* the idle count: m_idle_count = 0, m_stop = false, the queue is empty and
\* exactly N workers are started.
C11_Constructed ==
    Constructed =>
        /\ m_idle_count = SizeOf(0)
        /\ m_stop = FALSE
        /\ m_tasks = <<>>
        /\ DOMAIN wpc = 1..m_threads

\* C18: a constructed pool has at least one worker.
C18_AtLeastOneWorker ==
    m_threads >= 1

\* Client c takes a step of wait(): the call, a test of the predicate, taking
\* the lock again after a wake-up, or the return to the caller.
WaitMoves(c) ==
    <<cpc[c], cpc'[c]>> \in { <<"idle", "wait_test">>,
                             <<"wait_woken", "wait_test">>,
                             <<"wait_test", "wait_blocked">>,
                             <<"wait_test", "wait_returned">>,
                             <<"wait_returned", "idle">> }

\* C12: a step of wait() leaves m_stop, the queue, the idle count, the workers
\* and the tasks' outcomes as they are.
C12_WaitFrame ==
    [][\A c \in Clients :
          WaitMoves(c) =>
              UNCHANGED <<m_stop, m_tasks, m_idle_count, m_threads, joinable,
                          task_cv, wpc, wtask, future>>]_vars

\* C12's case: wait() has returned and every worker of the pool is alive,
\* blocked in m_task_cv.wait for the next task.
C12_Witness ==
    /\ m_threads >= 1
    /\ \E c \in Clients : cpc[c] = "wait_returned"
    /\ \A w \in Workers : wpc[w] = "task_blocked"
    /\ ~m_stop

\* Worker w's task ends by throwing: the step that leaves line 78 with the
\* exception stored in the task's shared state.
Fails(w) ==
    /\ w \in Workers
    /\ wpc[w] = "run"
    /\ wpc'[w] # "run"
    /\ future'[wtask[w]] = "exception"

\* C13: when a task throws, the exception becomes the outcome of that task
\* alone, the worker goes back to the top of its loop (line 60), and the other
\* tasks, the other workers, the queue, m_stop and the idle count are untouched.
C13_ThrowIsLocal ==
    [][\A w \in 1..MaxThreads :
          Fails(w) =>
              /\ wpc'[w] = "lock"
              /\ \A t \in Tasks \ {wtask[w]} : future'[t] = future[t]
              /\ \A x \in Workers \ {w} : wpc'[x] = wpc[x] /\ wtask'[x] = wtask[x]
              /\ UNCHANGED <<m_tasks, m_stop, m_idle_count, m_threads, joinable,
                             m_mutex, task_cv, idle_cv>>]_vars

\* C13's case: the single worker of a pool ran a task that threw and, after
\* it, a task that returned a value.
C13_Witness ==
    /\ m_threads = 1
    /\ Len(hist.ran) = 2
    /\ future[hist.ran[1]] = "exception"
    /\ future[hist.ran[2]] = "value"

\* C14: push() never waits once it has the mutex: at line 32 it holds the
\* mutex and its enqueue-and-unlock step can be taken, and at line 34 its
\* notify-and-return step can be taken, whatever the workers and the other
\* callers are doing.
C14_PushNeverWaits ==
    \A c \in Clients :
        /\ cpc[c] = "push_queue" => m_mutex = Client(c) /\ ENABLED PushQueue(c)
        /\ cpc[c] = "push_notify" => ENABLED PushNotify(c)

\* C14's case: push() has returned the handle of a task that is still in the
\* queue while every worker of the pool is inside a task body.
C14_Witness ==
    /\ m_threads >= 1
    /\ \A w \in Workers : wpc[w] = "run"
    /\ \E t \in Range(m_tasks) :
          /\ t \in hist.returned
          /\ future[t] = "unset"

\* The workers that have not returned from work() and hold no task: before
\* line 60, in the critical section of lines 60-66, or inside m_task_cv.wait.
Free == {w \in Workers :
            wpc[w] \in {"lock", "count", "task_wait", "task_blocked", "task_woken"}}

\* C15: when the queue is not empty and some live worker is not executing a
\* task, a task is eventually dequeued, even if no task body that is running
\* ever returns.
C15_NoStranding ==
    \A k \in 0..(MaxTasks - 1) :
        (Len(hist.popped) = k /\ m_tasks # <<>> /\ Free # {})
            ~> (Len(hist.popped) > k)

\* C15's case: one worker is inside a task body that has not returned, and the
\* other worker has dequeued a task that was enqueued after that.
C15_Witness ==
    /\ m_threads = 2
    /\ \E w, x \in Workers :
          /\ w # x
          /\ wpc[w] = "run" /\ wpc[x] = "run"
          /\ hist.ran = <<>>

\* Thread th is the one that takes the step: its position changes.
Moves(th) ==
    \/ \E w \in Workers : th = Worker(w) /\ wpc'[w] # wpc[w]
    \/ \E c \in Clients : th = Client(c) /\ cpc'[c] # cpc[c]

\* The mutex is out of the hands of a worker in lines 77-78 and of every
\* thread blocked on a condition variable; a thread in a critical section
\* that reads m_tasks, m_idle_count or m_stop holds it.
MutexPlaces ==
    /\ \A w \in Workers :
          /\ wpc[w] \in {"notify", "run"} => m_mutex # Worker(w)
          /\ w \in task_cv => m_mutex # Worker(w) /\ wpc[w] = "task_blocked"
          /\ wpc[w] = "task_blocked" => m_mutex # Worker(w)
          /\ wpc[w] \in {"count", "task_wait"} => m_mutex = Worker(w)
    /\ \A c \in Clients :
          /\ c \in idle_cv => m_mutex # Client(c) /\ cpc[c] = "wait_blocked"
          /\ cpc[c] = "wait_blocked" => m_mutex # Client(c)
          /\ cpc[c] \in {"push_queue", "wait_test", "join_stop"} => m_mutex = Client(c)

\* C16: a worker executing a task does not hold the mutex, no thread holds it
\* while blocked on a condition variable, and every access to the queue, the
\* idle count and m_stop is made by the thread that holds the mutex.
C16_MutexDiscipline ==
    /\ []MutexPlaces
    /\ [][(m_tasks' # m_tasks \/ m_idle_count' # m_idle_count \/ m_stop' # m_stop)
              => m_mutex # NoThread /\ Moves(m_mutex)]_vars

\* C16's case: a worker is inside a task body while another thread holds the
\* mutex and a caller of wait() is blocked on m_idle_cv.
C16_Witness ==
    /\ \E w \in Workers : wpc[w] = "run"
    /\ m_mutex # NoThread
    /\ idle_cv # {}

\* C17: a worker returns from work() only in a step in which it holds the
\* mutex and sees m_stop set and the queue empty; a worker that has returned
\* stays returned, dequeues nothing and executes nothing; and m_stop, once
\* true, stays true.
C17_Termination ==
    [][/\ \A w \in Workers :
             /\ (wpc[w] # "returned" /\ wpc'[w] = "returned")
                    => m_mutex = Worker(w) /\ m_stop /\ m_tasks = <<>>
             /\ wpc[w] = "returned"
                    => wpc'[w] = "returned" /\ wtask'[w] = NoTask /\ wtask[w] = NoTask
       /\ (\A w \in Workers : wpc[w] = "returned")
             => hist'.popped = hist.popped /\ hist'.ran = hist.ran
       /\ m_stop => m_stop']_vars

\* C17's case: after join() set m_stop a worker dequeued and ran a task, and
\* then returned from work().
C17_Witness ==
    /\ \E w \in Workers : wpc[w] = "returned"
    /\ m_stop
    /\ \E t \in hist.lateCall : Done(t)

\* The workers that have not returned from work().
Live == {w \in Workers : wpc[w] # "returned"}

\* C19: the idle count is at most the number of workers that have not
\* returned, so once a worker has returned the predicate of wait() (line 53)
\* is false, and a wait() call that tests it cannot return.
C19_IdleBound ==
    /\ m_idle_count \in {SizeOf(k) : k \in 0..Cardinality(Live)}
    /\ Live # Workers => ~AllIdle

\* C20: the step in which the last live worker returns from work() finds the
\* queue empty; under fair scheduling a task that is in the queue while some
\* worker has not returned gets its outcome set, also when it was pushed after
\* join() set m_stop; and once every worker has returned nothing leaves the
\* queue.
C20_LastWorkerDrains ==
    /\ [][/\ \A w \in Workers :
                (Live = {w} /\ wpc'[w] = "returned")
                    => m_tasks = <<>> /\ m_tasks' = <<>>
          /\ Live = {} => IsPrefix(m_tasks, m_tasks')]_vars
    /\ \A t \in Tasks : (t \in Range(m_tasks) /\ Live # {}) ~> Done(t)

\* C20's case: a task pushed after join() set m_stop has its outcome set, and
\* every worker of the pool has returned, leaving the queue empty.
C20_Witness ==
    /\ m_threads >= 1
    /\ Live = {}
    /\ m_tasks = <<>>
    /\ \E t \in hist.lateCall : Done(t)
=============================================================================
